---- MODULE Spec2Model ----
(***************************************************************************)
(* A model of the Amazon job monitor (auto-token-monitor.js and its        *)
(* variants).  Time is counted in minutes.  Every await of the source is   *)
(* a point where another callback may run, so each process rests at its    *)
(* awaits and an action is the code between two awaits.                    *)
(***************************************************************************)
EXTENDS Integers, Sequences, FiniteSets, TLC

\* ---------------------------------------------------------------- bounds
MaxTime == 2
MaxFetches == 3
MaxJobId == 2
MaxBatch == 2
TrimStart == 999
MaxFresh == 2
MaxLaunch == 3

\* ------------------------------------------------------ program constants
maxRetries == 3
ExtractGuardMinutes == 5
ExpiryGuardMinutes == 10
AssumedValidityMinutes == 59
MAX_JOBS_PER_ALERT == 999
US_MAX_JOBS_PER_ALERT == 5
SEEN_CAPACITY == 1000
SEEN_KEEP == 500
NoExpiry == 0
NoHandle == 0

\* a token is the text of a JWT, known here by whether its claims decode and by
\* its exp claim; null is NoToken
NoToken == [kind |-> "none", exp |-> NoExpiry]
OpaqueToken == [kind |-> "opaque", exp |-> NoExpiry]

\* what page.evaluate may come back with, and the exp claim (a minute) of the
\* token the page holds in its storage
AllFound == {"error", "none", "opaque", "jwt"}
TokenExps == {1, 4, 8, 11}

\* what the listings API and Telegram may answer
AllStatuses == {"200", "401", "403", "other"}
AllReplies == {"ok", "okfalse", "429", "notok", "throw"}

JobIds == 1..MaxJobId
TickIds == {"t1", "t2"}
Procs == {"main", "timer"} \cup TickIds

\* the model lets as many activities overlap as there are tick slots
MaxActive == Cardinality(TickIds)

VARIABLES
    phase,                \* "startup", "running" (poll interval set), "exited"
    now,                  \* Date.now(), in minutes
    browser,              \* browser/page are non-null
    tokenRefreshInterval, \* the 55-minute timer is set
    currentAuthToken,     \* a token, NoToken for null
    tokenExpiryTime,      \* minute of expiry, NoExpiry for null
    seenJobIds,           \* a Set keeps insertion order: a sequence without repeats
    proc,                 \* per async activity: where it awaits and its locals
    extractor,            \* token-extractor.js: its browser and page, as handles
    alive,                \* the browser process behind `browser` is running
    stop,                 \* cleanup(): calls awaiting browser.close(), close() calls made
    setup,                \* setup.js: what the user typed and the configuration returned
    storage,              \* the page's localStorage and sessionStorage, and what
                          \* page.evaluate returned from them
    verified,             \* history: testToken answered ok for the token now stored
    rejected,             \* history: the listings API answered 401 for the token now stored
    last                  \* history: who took the last step and on what input

vars == <<phase, now, browser, tokenRefreshInterval, currentAuthToken,
          tokenExpiryTime, seenJobIds, proc, extractor, alive, stop, storage,
          setup,
          verified, rejected, last>>

\* the step being taken is p's, on input w; ctx, fetches and jobs are what p
\* was in the middle of (which caller awaits it, how many queries it has sent,
\* the batch it has fetched)
Did(p, w) ==
    last' = [who |-> p, what |-> w,
             ctx |-> IF p \in Procs THEN proc[p].ctx ELSE "none",
             fetches |-> IF p \in Procs THEN proc[p].fetches ELSE 0,
             jobs |-> IF p \in Procs THEN proc[p].jobs ELSE <<>>]

\* the step is p's answer from the dispatcher in a capacity-trim variant; jobs
\* are the listings the call was handed
DidSend(p, w) ==
    last' = [who |-> p, what |-> w, ctx |-> proc[p].ctx,
             fetches |-> proc[p].fetches, jobs |-> proc[p].newJobs]

NoStep == [who |-> "none", what |-> "none", ctx |-> "none", fetches |-> 0,
           jobs |-> <<>>]

Idle == [pc |-> "idle", ctx |-> "none", retry |-> 0, tok |-> NoToken,
         hdr |-> NoToken, fetches |-> 0, body |-> "none", jobs |-> <<>>,
         newJobs |-> <<>>, idx |-> 0, h |-> NoHandle, max |-> 0]

\* token-extractor.js as loaded: browser = null, page = null.  Handle n is the
\* n-th browser launched (and its page); closed holds the handles closed so far.
\* a storage value as the discovery sees it: does it start with 'eyJ', and its
\* length; NoPage is a page with empty storage that was not evaluated
NoValue == [eyJ |-> FALSE, len |-> 0]
NotFound == [source |-> "none", key |-> "none", value |-> NoValue]
NoPage == [local |-> <<>>, session |-> <<>>,
           result |-> [source |-> "pending", key |-> "none", value |-> NoValue]]

\* a JavaScript number as parseInt returns it: NaN or an integer
NaN == [nan |-> TRUE, value |-> 0]
Num(n) == [nan |-> FALSE, value |-> n]

\* setup.js was not run
NoConfig == [done |-> FALSE, POLLING_INTERVAL |-> NaN, MAX_JOBS_PER_ALERT |-> NaN]
NoSetup == [pollingInterval |-> <<>>, maxJobsPerAlert |-> <<>>, config |-> NoConfig]

\* no cleanup() has been called
NoStop == [pending |-> 0, closes |-> 0]

NoBrowser == [browser |-> NoHandle, page |-> NoHandle, launched |-> 0, closed |-> {}]

Range(s) == {s[i] : i \in 1..Len(s)}

\* every sequence over S of length at most n
RECURSIVE SeqsUpTo(_, _)
SeqsUpTo(S, n) ==
    IF n = 0 THEN {<<>>}
    ELSE LET shorter == SeqsUpTo(S, n - 1)
         IN shorter \cup {Append(s, x) : s \in {t \in shorter : Len(t) = n - 1}, x \in S}

\* the jobCards arrays the listings API may answer with
Batches == SeqsUpTo(JobIds, MaxBatch)
FewBatches == {<<>>, <<1>>}

\* --------------------------------------------------------- token lifecycle

IsTokenExpired(cat, tet, t) ==
    IF cat = NoToken \/ tet = NoExpiry THEN TRUE
    ELSE t > tet - ExpiryGuardMinutes

\* refreshAuthToken up to the first await of extractAuthToken(0)
RefreshAuthToken(r, c) ==
    [r EXCEPT !.pc = IF browser THEN "nav" ELSE "launch", !.ctx = c, !.retry = 0,
              !.hdr = NoToken]

\* the listings request leaves with the current token in its header
SendQuery(r, cat) ==
    IF cat = NoToken THEN Idle
    ELSE [r EXCEPT !.pc = "fetch", !.ctx = "none", !.hdr = cat, !.fetches = @ + 1]

\* fetchAmazonJobs from its entry to its first await
FetchAmazonJobs(r, cat, tet) ==
    IF IsTokenExpired(cat, tet, now) THEN RefreshAuthToken(r, "pre")
    ELSE SendQuery(r, cat)

\* the caller's code after extractAuthToken returned, the globals being cat, tet
\* (retryCount and the extracted token are locals of the call that returned)
AfterRefreshOk(r0, cat, tet) ==
    LET r == [r0 EXCEPT !.retry = 0, !.tok = NoToken]
    IN CASE r.ctx = "startup" -> FetchAmazonJobs(Idle, cat, tet)
         [] r.ctx = "pre"     -> SendQuery(r, cat)
         [] r.ctx = "r401"    -> FetchAmazonJobs(r, cat, tet)
         [] OTHER             -> Idle

AfterRefreshFailFatal(r) == [Idle EXCEPT !.pc = "exit"]

AfterRefreshFailTimerFatal(r) ==
    IF r.ctx \in {"startup", "timer"} THEN [Idle EXCEPT !.pc = "exit"] ELSE Idle

AfterRefreshFailQuerying(r) ==
    [r EXCEPT !.pc = "fetch", !.ctx = "none", !.retry = 0, !.fetches = @ + 1]

AfterRefreshFailPolling(r) ==
    IF r.ctx = "startup" THEN [Idle EXCEPT !.pc = "fetch", !.fetches = 1] ELSE Idle

\* the caller's code after extractAuthToken threw
AfterRefreshFail(r) ==
    IF r.ctx = "startup" THEN [Idle EXCEPT !.pc = "exit"] ELSE Idle

\* write back p's record; startMonitoring sets the intervals when its initial
\* poll returns, and cleans up and exits when its start-up steps throw
Commit(p, r, b) ==
    /\ proc' = [proc EXCEPT ![p] = IF r.pc = "exit" THEN Idle ELSE r]
    /\ phase' = CASE r.pc = "exit" -> "exited"
                  [] p = "main" /\ r.pc = "idle" -> "running"
                  [] OTHER -> phase
    /\ browser' = IF r.pc = "exit" THEN FALSE ELSE b
    /\ alive' = CASE r.pc = "exit" -> FALSE
                  [] b /\ ~browser -> TRUE
                  [] OTHER -> alive
    /\ tokenRefreshInterval' =
         CASE r.pc = "exit" -> FALSE
           [] p = "main" /\ proc[p].ctx = "startup" /\ r.ctx # "startup" -> TRUE
           [] OTHER -> tokenRefreshInterval

Init ==
    /\ phase = "startup"
    /\ now = 1
    /\ browser = FALSE
    /\ alive = FALSE
    /\ stop = NoStop
    /\ storage = NoPage
    /\ setup = NoSetup
    /\ tokenRefreshInterval = FALSE
    /\ currentAuthToken = NoToken
    /\ tokenExpiryTime = NoExpiry
    /\ seenJobIds = <<>>
    /\ proc = [p \in Procs |-> IF p = "main"
                               THEN [Idle EXCEPT !.pc = "launch", !.ctx = "startup"]
                               ELSE Idle]
    /\ extractor = NoBrowser
    /\ verified = FALSE
    /\ rejected = FALSE
    /\ last = NoStep

\* ------------------------------------------------------------ environment

\* a minute passes
Advance ==
    /\ phase # "exited"
    /\ now < MaxTime
    /\ now' = now + 1
    /\ Did("env", "minute")
    /\ UNCHANGED <<setup, storage, alive, stop, extractor, phase, browser, tokenRefreshInterval, currentAuthToken,
                   tokenExpiryTime, seenJobIds, proc, verified, rejected>>

\* ------------------------------------------------------------- extraction

\* initializeBrowser: puppeteer.launch and newPage answer
LaunchDone(p) ==
    /\ phase # "exited"
    /\ proc[p].pc = "launch"
    /\ \E ok \in BOOLEAN :
         /\ Did(p, IF ok THEN "launched" ELSE "launch_failed")
         /\ IF ok THEN Commit(p, [proc[p] EXCEPT !.pc = "nav", !.retry = 0], TRUE)
            ELSE Commit(p, AfterRefreshFail(proc[p]), browser)
    /\ UNCHANGED <<setup, storage, stop, extractor, now, currentAuthToken, tokenExpiryTime, seenJobIds,
                   verified, rejected>>

AssumedExpiryNone(t) == NoExpiry

AssumedExpiryStale(t) == tokenExpiryTime

\* new Date(Date.now() + 59 * 60 * 1000)
AssumedExpiry(t) == t + AssumedValidityMinutes

TokenCleared ==
    /\ currentAuthToken' = NoToken
    /\ tokenExpiryTime' = NoExpiry
    /\ UNCHANGED <<verified, rejected>>

\* an attempt that throws or retries assigns neither global
TokenKept == UNCHANGED <<currentAuthToken, tokenExpiryTime, verified, rejected>>

MayRetryNever(retryCount) == FALSE

\* if (decoded && decoded.exp): an exp claim of 0 is falsy, like a missing one
HasExpiry(exp) == exp # 0

\* if (timeLeft <= 0): the decoded expiry is not in the future
AlreadyExpired(timeLeft) == timeLeft <= 0

MayRetryOnceMore(retryCount) == retryCount <= maxRetries

\* if (retryCount < maxRetries): wait 30 s and extract again
MayRetry(retryCount) == retryCount < maxRetries

\* extractAuthToken: page.goto, the settle wait and page.evaluate are over, and
\* the code runs to its next await (testToken, the retry's page.goto) or its end
ExtractRead(p, Found, Exps) ==
    /\ phase # "exited"
    /\ proc[p].pc = "nav"
    /\ LET r == proc[p]
       IN \E found \in Found, exp \in Exps :
            LET timeLeft == exp - now
                outcome ==
            CASE found \in {"error", "none"} ->
                   \* page.goto threw, or no token was found
                   /\ Commit(p, AfterRefreshFail(r), browser)
                   /\ TokenKept
              [] found = "opaque" ->
                   \* claims not decodable: assume 59 minutes, no test
                   /\ currentAuthToken' = OpaqueToken
                   /\ tokenExpiryTime' = AssumedExpiry(now)
                   /\ verified' = FALSE
                   /\ rejected' = FALSE
                   /\ Commit(p, AfterRefreshOk(r, OpaqueToken, AssumedExpiry(now)),
                             browser)
              [] found = "jwt" /\ ~HasExpiry(exp) ->
                   \* the same else branch for a decoded exp of 0
                   /\ currentAuthToken' = [kind |-> "jwt", exp |-> exp]
                   /\ tokenExpiryTime' = AssumedExpiry(now)
                   /\ verified' = FALSE
                   /\ rejected' = FALSE
                   /\ Commit(p, AfterRefreshOk(r, [kind |-> "jwt", exp |-> exp],
                                               AssumedExpiry(now)),
                             browser)
              [] found = "jwt" /\ HasExpiry(exp) /\ AlreadyExpired(timeLeft) ->
                   /\ IF MayRetry(r.retry)
                      THEN Commit(p, [r EXCEPT !.retry = @ + 1], browser)
                      ELSE Commit(p, AfterRefreshFail(r), browser)
                   /\ TokenKept
              [] found = "jwt" /\ HasExpiry(exp)
                               /\ timeLeft > 0 /\ timeLeft < ExtractGuardMinutes
                               /\ MayRetry(r.retry) ->
                   /\ Commit(p, [r EXCEPT !.retry = @ + 1], browser)
                   /\ TokenKept
              [] OTHER ->
                   /\ currentAuthToken' = [kind |-> "jwt", exp |-> exp]
                   /\ tokenExpiryTime' = exp
                   /\ verified' = FALSE
                   /\ rejected' = FALSE
                   /\ Commit(p, [r EXCEPT !.pc = "test", !.retry = 0,
                                          !.tok = [kind |-> "jwt", exp |-> exp]],
                             browser)
            IN /\ found # "error" => alive   \* a dead browser's page only throws
               /\ Did(p, found)
               /\ outcome
    /\ UNCHANGED <<setup, storage, stop, extractor, now, seenJobIds>>

\* testToken answered (or threw); extractAuthToken returns the token either way
ExtractTested(p) ==
    /\ phase # "exited"
    /\ proc[p].pc = "test"
    /\ \E ok \in BOOLEAN :
         /\ Did(p, IF ok THEN "test_ok" ELSE "test_failed")
         /\ verified' = IF ok /\ proc[p].tok = currentAuthToken THEN TRUE ELSE verified
    /\ Commit(p, AfterRefreshOk(proc[p], currentAuthToken, tokenExpiryTime), browser)
    /\ UNCHANGED <<setup, storage, stop, extractor, now, currentAuthToken, tokenExpiryTime, seenJobIds, rejected>>

\* ------------------------------------------------------------- poll cycle

NewJobsNoFilter(jobs, seen) == jobs

\* jobs.filter(job => !seenJobIds.has(job.jobId))
NewJobs(jobs, seen) == SelectSeq(jobs, LAMBDA j : j \notin Range(seen))

AddAllDropping(seen, jobs) == seen

\* newJobs.forEach(job => seenJobIds.add(job.jobId))
RECURSIVE AddAll(_, _)
AddAll(seen, jobs) ==
    IF jobs = <<>> THEN seen
    ELSE AddAll(IF Head(jobs) \in Range(seen) THEN seen ELSE Append(seen, Head(jobs)),
                Tail(jobs))

PruneSeenOldest(seen) ==
    IF Len(seen) > SEEN_CAPACITY THEN SubSeq(seen, 1, SEEN_KEEP) ELSE seen

\* if (seenJobIds.size > 1000) seenJobIds = new Set(Array.from(seenJobIds).slice(-500))
PruneSeen(seen) ==
    IF Len(seen) > SEEN_CAPACITY
    THEN SubSeq(seen, Len(seen) - SEEN_KEEP + 1, Len(seen))
    ELSE seen

\* the poll interval fires: pollForJobs -> fetchAmazonJobs, up to its first await.
\* A tick takes the lowest free slot.
TickFire(p) ==
    /\ phase = "running"
    /\ p \in TickIds
    /\ proc[p].pc = "idle"
    /\ p = "t2" => proc["t1"].pc # "idle"
    /\ Cardinality({q \in Procs : proc[q].pc # "idle"}) < MaxActive
    /\ Commit(p, FetchAmazonJobs(Idle, currentAuthToken, tokenExpiryTime), browser)
    /\ Did(p, "tick")
    /\ UNCHANGED <<setup, storage, stop, extractor, now, currentAuthToken, tokenExpiryTime, seenJobIds,
                   verified, rejected>>

\* the 55-minute interval fires: refreshAuthToken
TimerFire ==
    /\ phase # "exited"
    /\ tokenRefreshInterval
    /\ proc["timer"].pc = "idle"
    /\ Cardinality({q \in Procs : proc[q].pc # "idle"}) < MaxActive
    /\ Commit("timer", RefreshAuthToken(Idle, "timer"), browser)
    /\ Did("timer", "timer")
    /\ UNCHANGED <<setup, storage, stop, extractor, now, currentAuthToken, tokenExpiryTime, seenJobIds,
                   verified, rejected>>

\* the 30-second interval fires: seenJobIds.clear()
ClearSeen ==
    /\ phase = "running"
    /\ seenJobIds' = <<>>
    /\ Did("env", "clear")
    /\ UNCHANGED <<setup, storage, alive, stop, extractor, phase, now, browser, tokenRefreshInterval, currentAuthToken,
                   tokenExpiryTime, proc, verified, rejected>>

\* the listings API answered the request (status line), or fetch threw
FetchResponse(p, Statuses, Cards) ==
    /\ phase # "exited"
    /\ proc[p].pc = "fetch"
    /\ LET r == proc[p]
       IN \E status \in Statuses :
            LET outcome ==
            CASE status = "401" ->
                   /\ r.fetches < MaxFetches
                   /\ rejected' = (rejected \/ r.hdr = currentAuthToken)
                   /\ Commit(p, RefreshAuthToken(r, "r401"), browser)
              [] status = "200" ->
                   /\ \E kind \in {"cards", "bad"}, cards \in Cards :
                        /\ kind = "bad" => cards = <<>>
                        /\ Commit(p, [r EXCEPT !.pc = "json", !.hdr = NoToken, !.fetches = 0,
                                              !.body = kind, !.jobs = cards],
                                  browser)
                   /\ UNCHANGED rejected
              [] OTHER ->
                   /\ Commit(p, Idle, browser)
                   /\ UNCHANGED rejected
            IN Did(p, status) /\ outcome
    /\ UNCHANGED <<setup, storage, stop, extractor, now, currentAuthToken, tokenExpiryTime, seenJobIds, verified>>

\* response.json() answered: the rest of fetchAmazonJobs, then pollForJobs up to
\* the first await of sendTelegramAlert
ParseBody(p) ==
    /\ phase # "exited"
    /\ proc[p].pc = "json"
    /\ Did(p, "json")
    /\ LET r == proc[p]
           new == NewJobs(r.jobs, seenJobIds)
       IN IF r.body = "bad" \/ Len(r.jobs) = 0 \/ Len(new) = 0
          THEN /\ Commit(p, Idle, browser)
               /\ UNCHANGED seenJobIds
          ELSE /\ seenJobIds' = AddAll(seenJobIds, new)
               /\ Commit(p, [r EXCEPT !.pc = "send", !.body = "none", !.jobs = <<>>,
                                      !.newJobs = new, !.idx = 0], browser)
    /\ UNCHANGED <<setup, storage, stop, extractor, now, currentAuthToken, tokenExpiryTime, verified, rejected>>

NextIndexSkipping(resp, idx) == idx + 1

NextIndexStuck(resp, idx) == idx

\* the loop variable after an answer: on 429 "i--; continue" and the loop's i++
\* leave it on the same job, every other answer moves it to the next
NextIndex(resp, idx) == IF resp = "429" THEN idx ELSE idx + 1

\* Telegram answered the message for newJobs[idx] (0-based), or fetch threw;
\* when sendTelegramAlert returns, the capacity-trim variants prune seenJobIds
SendLoop(p, Replies, limit, trim) ==
    /\ phase # "exited"
    /\ proc[p].pc = "send"
    /\ LET r == proc[p]
       IN \E resp \in Replies :
            LET i == NextIndex(resp, r.idx)
            IN IF resp = "throw" \/ ~(i < Len(r.newJobs) /\ i < limit)
               THEN /\ IF trim THEN DidSend(p, resp) ELSE Did(p, resp)
                    /\ Commit(p, Idle, browser)
                    /\ seenJobIds' = IF trim THEN PruneSeen(seenJobIds) ELSE seenJobIds
               ELSE /\ IF trim THEN DidSend(p, resp) ELSE Did(p, resp)
                    /\ Commit(p, [r EXCEPT !.idx = i], browser)
                    /\ UNCHANGED seenJobIds
    /\ UNCHANGED <<setup, storage, stop, extractor, now, currentAuthToken, tokenExpiryTime, verified, rejected>>

\* auto-token-monitor.js: no pruning, seenJobIds is cleared by its own timer
SendResponse(p, Replies) == SendLoop(p, Replies, MAX_JOBS_PER_ALERT, FALSE)

TrimSendResponseUncapped(p, Replies) ==
    SendLoop(p, Replies, MAX_JOBS_PER_ALERT, TRUE)

\* the US variant: pollForJobs prunes after sendTelegramAlert
TrimSendResponse(p, Replies) == SendLoop(p, Replies, US_MAX_JOBS_PER_ALERT, TRUE)

\* process.on('uncaughtException' / 'unhandledRejection'): cleanup() clears the
\* refresh interval and closes the browser, then process.exit(1) ends every
\* pending activity
Fault ==
    /\ phase # "exited"
    /\ Did("env", "uncaught")
    /\ phase' = "exited"
    /\ browser' = FALSE
    /\ alive' = FALSE
    /\ tokenRefreshInterval' = FALSE
    /\ proc' = [p \in Procs |-> Idle]
    /\ UNCHANGED <<setup, storage, stop, extractor, now, currentAuthToken, tokenExpiryTime, seenJobIds,
                   verified, rejected>>

Next ==
    \/ Advance
    \/ Fault
    \/ TimerFire
    \/ ClearSeen
    \/ \E p \in Procs : LaunchDone(p)
    \/ \E p \in Procs : ExtractRead(p, AllFound, TokenExps)
    \/ \E p \in Procs : ExtractTested(p)
    \/ \E p \in Procs : TickFire(p)
    \/ \E p \in Procs : FetchResponse(p, AllStatuses, FewBatches)
    \/ \E p \in Procs : ParseBody(p)
    \/ \E p \in Procs : SendResponse(p, AllReplies)

Spec == Init /\ [][Next]_vars

\* The same program while the token stays valid: no minute passes, the refresh
\* timer does not fire, the page holds a fresh token and the listings API does
\* not reject it; the batches are every array over JobIds up to MaxBatch.
NextPoll ==
    \/ ClearSeen
    \/ \E p \in Procs : LaunchDone(p)
    \/ \E p \in Procs : ExtractRead(p, {"jwt"}, {11})
    \/ \E p \in Procs : ExtractTested(p)
    \/ \E p \in Procs : TickFire(p)
    \/ \E p \in Procs : FetchResponse(p, {"200", "other"}, Batches)
    \/ \E p \in Procs : ParseBody(p)
    \/ \E p \in Procs : SendResponse(p, AllReplies)

SpecPoll == Init /\ [][NextPoll]_vars

\* every pending await settles: a launch, a page read, a token test, a listings
\* answer, a body and a Telegram answer (or its 10 s and 2 s waits) all arrive
PollProgress ==
    \A p \in Procs :
        /\ WF_vars(LaunchDone(p))
        /\ WF_vars(ExtractRead(p, {"jwt"}, {11}))
        /\ WF_vars(ExtractTested(p))
        /\ WF_vars(FetchResponse(p, {"200", "other"}, Batches))
        /\ WF_vars(ParseBody(p))
        /\ WF_vars(SendResponse(p, AllReplies))

SpecPollFair == SpecPoll /\ PollProgress

\* The capacity-trim variant (US monitor), taken up in mid-run: the intervals
\* are set, a fresh token is stored and TrimStart listings have been seen.  The
\* token stays valid, so a tick is fetchAmazonJobs' query and pollForJobs.
TrimIds == {1} \cup (TrimStart + 1 .. TrimStart + MaxFresh)

InitTrim ==
    /\ phase = "running"
    /\ now = 1
    /\ browser = TRUE
    /\ alive = TRUE
    /\ stop = NoStop
    /\ storage = NoPage
    /\ setup = NoSetup
    /\ tokenRefreshInterval = TRUE
    /\ currentAuthToken = [kind |-> "jwt", exp |-> 11]
    /\ tokenExpiryTime = 11
    /\ seenJobIds = [i \in 1..TrimStart |-> i]
    /\ proc = [p \in Procs |-> Idle]
    /\ extractor = NoBrowser
    /\ verified = TRUE
    /\ rejected = FALSE
    /\ last = NoStep

NextTrim ==
    \/ \E p \in Procs : TickFire(p)
    \/ \E p \in Procs : FetchResponse(p, {"200", "other"}, SeqsUpTo(TrimIds, MaxBatch))
    \/ \E p \in Procs : ParseBody(p)
    \/ \E p \in Procs : TrimSendResponse(p, {"ok", "429", "throw"})

SpecTrim == InitTrim /\ [][NextTrim]_vars

MaxOver == 1

\* The same variant with seenJobIds at its capacity or past it: t1 is in the
\* dispatcher with listing x, and n - x listings have been seen since.  A tick
\* prunes when it returns, so the ids past the capacity are those of ticks
\* still in the dispatcher: t1's, or else t2's
PastCapacity(n, x) ==
    SelectSeq([i \in 1..(n - SEEN_CAPACITY) |-> SEEN_CAPACITY + i], LAMBDA j : j # x)

InitPrune ==
    \E n \in SEEN_CAPACITY .. SEEN_CAPACITY + MaxOver :
      \E x \in {n - SEEN_KEEP - 1, n - SEEN_KEEP, n - SEEN_KEEP + 1, n} :
          /\ phase = "running"
          /\ now = 1
          /\ browser = TRUE
          /\ alive = TRUE
          /\ stop = NoStop
          /\ storage = NoPage
          /\ setup = NoSetup
          /\ tokenRefreshInterval = TRUE
          /\ currentAuthToken = [kind |-> "jwt", exp |-> 11]
          /\ tokenExpiryTime = 11
          /\ seenJobIds = [i \in 1..n |-> i]
          /\ proc = [p \in Procs |->
                       CASE p = "t1" -> [Idle EXCEPT !.pc = "send", !.newJobs = <<x>>]
                         [] p = "t2" /\ PastCapacity(n, x) # <<>> ->
                              [Idle EXCEPT !.pc = "send", !.newJobs = PastCapacity(n, x)]
                         [] OTHER -> Idle]
          /\ extractor = NoBrowser
          /\ verified = TRUE
          /\ rejected = FALSE
          /\ last = NoStep

\* the listings API answers with an old listing or with one never seen
PruneBatches == {<<1>>, <<SEEN_CAPACITY + MaxOver + 1>>}

NextPrune ==
    \/ \E p \in Procs : TickFire(p)
    \/ \E p \in Procs : FetchResponse(p, {"200", "other"}, PruneBatches)
    \/ \E p \in Procs : ParseBody(p)
    \/ \E p \in Procs : TrimSendResponse(p, {"ok", "429", "throw"})

SpecPrune == InitPrune /\ [][NextPrune]_vars

\* The same variant right after a clearing, with batches around the alert cap
CapBatches ==
    {[i \in 1..n |-> i] :
        n \in (US_MAX_JOBS_PER_ALERT - 1) .. (US_MAX_JOBS_PER_ALERT + MaxOver)}

InitCap ==
    /\ phase = "running"
    /\ now = 1
    /\ browser = TRUE
    /\ alive = TRUE
    /\ stop = NoStop
    /\ storage = NoPage
    /\ setup = NoSetup
    /\ tokenRefreshInterval = TRUE
    /\ currentAuthToken = [kind |-> "jwt", exp |-> 11]
    /\ tokenExpiryTime = 11
    /\ seenJobIds = <<>>
    /\ proc = [p \in Procs |-> Idle]
    /\ extractor = NoBrowser
    /\ verified = TRUE
    /\ rejected = FALSE
    /\ last = NoStep

NextCap ==
    \/ \E p \in Procs : TickFire(p)
    \/ \E p \in Procs : FetchResponse(p, {"200", "other"}, CapBatches)
    \/ \E p \in Procs : ParseBody(p)
    \/ \E p \in Procs : TrimSendResponse(p, {"ok", "429", "notok"})

SpecCap == InitCap /\ [][NextCap]_vars

\* Start-up and renewals against a page that holds no token, a token whose claims
\* cannot be decoded or one and the same JWT, which has a minute left at the
\* start and is expired from then on
ShortLived == [kind |-> "jwt", exp |-> 2]

NextShort ==
    \/ Advance
    \/ TimerFire
    \/ \E p \in Procs : LaunchDone(p)
    \/ \E p \in Procs : ExtractRead(p, {"error", "none", "opaque", "jwt"}, {ShortLived.exp})
    \/ \E p \in Procs : ExtractTested(p)
    \/ \E p \in Procs : TickFire(p)
    \/ \E p \in Procs : FetchResponse(p, {"401", "other"}, {<<>>})

SpecShort == Init /\ [][NextShort]_vars

\* Start-up and renewals against a page whose JWT carries an exp claim of 0,
\* the epoch, or one that lies 10 minutes ahead at the start
EpochExps == {0, 11}

NextEpoch ==
    \/ Advance
    \/ TimerFire
    \/ \E p \in Procs : LaunchDone(p)
    \/ \E p \in Procs : ExtractRead(p, {"error", "jwt"}, EpochExps)
    \/ \E p \in Procs : ExtractTested(p)
    \/ \E p \in Procs : TickFire(p)
    \/ \E p \in Procs : FetchResponse(p, {"401", "other"}, {<<>>})

SpecEpoch == Init /\ [][NextEpoch]_vars

\* The monitor in mid-run with a token that needs renewing once a minute has
\* passed: ticks overlap, renewals and sends fail or succeed, and every pending
\* await settles
DeliverBatches == {<<1>>, <<1, 2>>}
DeliverIds == UNION {Range(b) : b \in DeliverBatches}

NextDeliver ==
    \/ Advance
    \/ ClearSeen
    \/ \E p \in Procs : TickFire(p)
    \/ \E p \in Procs : ExtractRead(p, {"error", "jwt"}, {11})
    \/ \E p \in Procs : ExtractTested(p)
    \/ \E p \in Procs : FetchResponse(p, {"200", "other"}, DeliverBatches)
    \/ \E p \in Procs : ParseBody(p)
    \/ \E p \in Procs : SendResponse(p, {"ok", "429", "notok"})

DeliverProgress ==
    \A p \in Procs :
        /\ WF_vars(ExtractRead(p, {"error", "jwt"}, {11}))
        /\ WF_vars(ExtractTested(p))
        /\ WF_vars(FetchResponse(p, {"200", "other"}, DeliverBatches))
        /\ WF_vars(ParseBody(p))
        /\ WF_vars(SendResponse(p, {"ok", "429", "notok"}))

SpecDeliver == InitCap /\ [][NextDeliver]_vars /\ DeliverProgress

\* ------------------------------------------------- modular token variant
\* The monitor that takes its tokens from token-extractor.js.  Its processes
\* rest at: "mclose" browser.close(), "mlaunch" puppeteer.launch, "mpage"
\* browser.newPage(), "mua" page.setUserAgent, "mgoto" page.goto, "msettle" the
\* 15 s wait, "meval" page.title()/page.evaluate, "mvalidate" and "mcheck"
\* validateTokenWithServer, "mwait" the 10 s between attempts, "mfetch" the
\* listings request, "mjson" response.json(), "msend" the Telegram request.
\* proc[p].h is the handle the pending browser call was made on.

UsesPage == {"mgoto", "meval"}

\* write back p's record and the extractor module's state; main() exits when
\* its ensureValidToken throws and sets the intervals when it returns
ModCommit(p, r, e) ==
    /\ proc' = [proc EXCEPT ![p] = IF r.pc = "exit" THEN Idle ELSE r]
    /\ phase' = CASE r.pc = "exit" -> "exited"
                  [] p = "main" /\ r.pc = "idle" -> "running"
                  [] OTHER -> phase
    /\ extractor' = e
    /\ UNCHANGED <<setup, storage, alive, stop, now, browser, tokenRefreshInterval, tokenExpiryTime,
                   verified, rejected>>

\* initializeFreshBrowser up to its first await: browser.close() on the current
\* browser, or, with none, the references are nulled and puppeteer.launch starts
InitializeFreshBrowser(r, e) ==
    IF e.browser # NoHandle
    THEN [r |-> [r EXCEPT !.pc = "mclose", !.h = e.browser], e |-> e]
    ELSE [r |-> [r EXCEPT !.pc = "mlaunch", !.h = NoHandle],
          e |-> [e EXCEPT !.page = NoHandle]]

\* ensureValidToken threw: main() exits; fetchAmazonJobs returns [] and
\* sendTelegramAlert returns, which ends the tick
ModTokenFailed(r) ==
    IF r.ctx = "startup" THEN [Idle EXCEPT !.pc = "exit"] ELSE Idle

\* getValidToken(m) from its entry: attempts = 0, and while (attempts < m) the
\* first attempt starts; with m = 0 the loop is skipped and the throw follows
GetValidTokenWith(r, c, m, e) ==
    IF 0 < m
    THEN InitializeFreshBrowser([r EXCEPT !.ctx = c, !.retry = 1, !.tok = NoToken,
                                          !.max = m], e)
    ELSE [r |-> ModTokenFailed([r EXCEPT !.ctx = c]), e |-> e]

\* getValidToken() as the monitor calls it: maxRetries = 3 by default
GetValidToken(r, c, e) == GetValidTokenWith(r, c, maxRetries, e)

\* ensureValidToken up to its first await
EnsureValidToken(r, c, cat, e) ==
    IF cat = NoToken THEN GetValidToken(r, c, e)
    ELSE [r |-> [r EXCEPT !.pc = "mcheck", !.ctx = c, !.tok = cat], e |-> e]

\* ensureValidToken returned tk: the caller runs to its next await
ModTokenReady(r0, tk) ==
    LET r == [r0 EXCEPT !.ctx = "none", !.retry = 0, !.tok = NoToken, !.h = NoHandle,
                        !.max = 0]
    IN CASE r0.ctx = "fetch" -> [r EXCEPT !.pc = "mfetch", !.hdr = tk, !.fetches = @ + 1]
         [] r0.ctx = "send"  -> [r EXCEPT !.pc = "msend"]
         [] OTHER            -> Idle

AttemptFailedOnceMore(r) ==
    IF r.retry <= r.max THEN [r EXCEPT !.pc = "mwait", !.h = NoHandle]
    ELSE ModTokenFailed(r)

\* an attempt of getValidToken threw or its token was refused: 10 s of wait if
\* attempts < maxRetries, else the loop ends and getValidToken throws
AttemptFailed(r) ==
    IF r.retry < r.max THEN [r EXCEPT !.pc = "mwait", !.h = NoHandle]
    ELSE ModTokenFailed(r)

InitMod ==
    /\ phase = "startup"
    /\ now = 1
    /\ browser = FALSE
    /\ alive = FALSE
    /\ stop = NoStop
    /\ storage = NoPage
    /\ setup = NoSetup
    /\ tokenRefreshInterval = FALSE
    /\ currentAuthToken = NoToken
    /\ tokenExpiryTime = NoExpiry
    /\ seenJobIds = <<>>
    /\ proc = [p \in Procs |-> IF p = "main"
                               THEN GetValidToken(Idle, "startup", NoBrowser).r
                               ELSE Idle]
    /\ extractor = NoBrowser
    /\ verified = FALSE
    /\ rejected = FALSE
    /\ last = NoStep

\* browser.close() answered (an error is logged and ignored)
ModClosed(p) ==
    /\ phase # "exited"
    /\ proc[p].pc = "mclose"
    /\ Did(p, "closed")
    /\ ModCommit(p, [proc[p] EXCEPT !.pc = "mlaunch", !.h = NoHandle],
                 [extractor EXCEPT !.closed = @ \cup {proc[p].h},
                                   !.browser = NoHandle, !.page = NoHandle])
    /\ UNCHANGED <<currentAuthToken, seenJobIds>>

\* puppeteer.launch answered: browser is assigned and newPage is called on it
ModLaunched(p) ==
    /\ phase # "exited"
    /\ proc[p].pc = "mlaunch"
    /\ \E ok \in BOOLEAN :
         /\ Did(p, IF ok THEN "launched" ELSE "launch_failed")
         /\ IF ok
            THEN
              /\ extractor.launched < MaxLaunch
              /\ LET n == extractor.launched + 1
                 IN ModCommit(p, [proc[p] EXCEPT !.pc = "mpage", !.h = n],
                              [extractor EXCEPT !.browser = n, !.launched = n])
            ELSE ModCommit(p, AttemptFailed(proc[p]), extractor)
    /\ UNCHANGED <<currentAuthToken, seenJobIds>>

\* browser.newPage() answered: page is assigned and setUserAgent is called on it
ModPageReady(p) ==
    /\ phase # "exited"
    /\ proc[p].pc = "mpage"
    /\ Did(p, "page")
    /\ IF proc[p].h \in extractor.closed
       THEN ModCommit(p, AttemptFailed(proc[p]), extractor)
       ELSE ModCommit(p, [proc[p] EXCEPT !.pc = "mua"],
                      [extractor EXCEPT !.page = proc[p].h])
    /\ UNCHANGED <<currentAuthToken, seenJobIds>>

\* setUserAgent answered: initializeFreshBrowser returns and extractAuthToken
\* calls goto on whatever page the module holds now
ModUserAgentSet(p) ==
    /\ phase # "exited"
    /\ proc[p].pc = "mua"
    /\ Did(p, "agent")
    /\ IF proc[p].h \in extractor.closed \/ extractor.page = NoHandle
       THEN ModCommit(p, AttemptFailed(proc[p]), extractor)
       ELSE ModCommit(p, [proc[p] EXCEPT !.pc = "mgoto", !.h = extractor.page], extractor)
    /\ UNCHANGED <<currentAuthToken, seenJobIds>>

\* page.goto answered
ModNavigated(p) ==
    /\ phase # "exited"
    /\ proc[p].pc = "mgoto"
    /\ \E ok \in BOOLEAN :
         /\ Did(p, IF ok THEN "goto_ok" ELSE "error")
         /\ IF ok /\ proc[p].h \notin extractor.closed
            THEN ModCommit(p, [proc[p] EXCEPT !.pc = "msettle", !.h = NoHandle], extractor)
            ELSE ModCommit(p, AttemptFailed(proc[p]), extractor)
    /\ UNCHANGED <<currentAuthToken, seenJobIds>>

\* the 15 s are over: title and evaluate are called on the module's page
ModSettled(p) ==
    /\ phase # "exited"
    /\ proc[p].pc = "msettle"
    /\ Did(p, "settled")
    /\ IF extractor.page = NoHandle
       THEN ModCommit(p, AttemptFailed(proc[p]), extractor)
       ELSE ModCommit(p, [proc[p] EXCEPT !.pc = "meval", !.h = extractor.page], extractor)
    /\ UNCHANGED <<currentAuthToken, seenJobIds>>

\* page.evaluate answered: a token was found in storage or not
ModEvaluated(p) ==
    /\ phase # "exited"
    /\ proc[p].pc = "meval"
    /\ \E found \in BOOLEAN :
         /\ Did(p, IF found THEN "opaque" ELSE "none")
         /\ IF found /\ proc[p].h \notin extractor.closed
            THEN ModCommit(p, [proc[p] EXCEPT !.pc = "mvalidate", !.tok = OpaqueToken,
                                              !.h = NoHandle], extractor)
            ELSE ModCommit(p, AttemptFailed(proc[p]), extractor)
    /\ UNCHANGED <<currentAuthToken, seenJobIds>>

\* getValidToken: validateTokenWithServer answered for the extracted token
ModValidated(p) ==
    /\ phase # "exited"
    /\ proc[p].pc = "mvalidate"
    /\ \E valid \in BOOLEAN :
         /\ Did(p, IF valid THEN "test_ok" ELSE "test_failed")
         /\ IF valid
            THEN /\ currentAuthToken' = proc[p].tok
                 /\ ModCommit(p, ModTokenReady(proc[p], proc[p].tok), extractor)
            ELSE /\ ModCommit(p, AttemptFailed(proc[p]), extractor)
                 /\ UNCHANGED currentAuthToken
    /\ UNCHANGED seenJobIds

\* the 10 s between attempts are over
ModWaited(p) ==
    /\ phase # "exited"
    /\ proc[p].pc = "mwait"
    /\ Did(p, "waited")
    /\ LET s == InitializeFreshBrowser([proc[p] EXCEPT !.retry = @ + 1], extractor)
       IN ModCommit(p, s.r, s.e)
    /\ UNCHANGED <<currentAuthToken, seenJobIds>>

\* ensureValidToken: validateTokenWithServer answered for the stored token
ModChecked(p) ==
    /\ phase # "exited"
    /\ proc[p].pc = "mcheck"
    /\ \E valid \in BOOLEAN :
         /\ Did(p, IF valid THEN "test_ok" ELSE "test_failed")
         /\ IF valid
            THEN ModCommit(p, ModTokenReady(proc[p], currentAuthToken), extractor)
            ELSE LET s == GetValidToken(proc[p], proc[p].ctx, extractor)
                 IN ModCommit(p, s.r, s.e)
    /\ UNCHANGED <<currentAuthToken, seenJobIds>>

\* the poll interval fires: pollForJobs -> fetchAmazonJobs -> ensureValidToken
ModTickFire(p) ==
    /\ phase = "running"
    /\ p \in TickIds
    /\ proc[p].pc = "idle"
    /\ p = "t2" => proc["t1"].pc # "idle"
    /\ Did(p, "tick")
    /\ LET s == EnsureValidToken(Idle, "fetch", currentAuthToken, extractor)
       IN ModCommit(p, s.r, s.e)
    /\ UNCHANGED <<currentAuthToken, seenJobIds>>

\* the listings API answered: 401/403 clear the token and fetch a new one
ModFetchResponse(p, Statuses, Cards) ==
    /\ phase # "exited"
    /\ proc[p].pc = "mfetch"
    /\ LET r == [proc[p] EXCEPT !.hdr = NoToken]
       IN \E status \in Statuses :
            LET outcome ==
            CASE status \in {"401", "403"} ->
                   /\ r.fetches < MaxFetches
                   /\ currentAuthToken' = NoToken
                   /\ LET s == EnsureValidToken(r, "fetch", NoToken, extractor)
                      IN ModCommit(p, s.r, s.e)
              [] status = "200" ->
                   /\ \E kind \in {"cards", "bad"}, cards \in Cards :
                        /\ kind = "bad" => cards = <<>>
                        /\ ModCommit(p, [r EXCEPT !.pc = "mjson", !.fetches = 0,
                                                 !.body = kind, !.jobs = cards],
                                     extractor)
                   /\ UNCHANGED currentAuthToken
              [] OTHER ->
                   /\ ModCommit(p, Idle, extractor)
                   /\ UNCHANGED currentAuthToken
            IN Did(p, status) /\ outcome
    /\ UNCHANGED seenJobIds

\* response.json() answered: the rest of fetchAmazonJobs, pollForJobs' filter,
\* and sendTelegramAlert up to ensureValidToken for its first job
ModParseBody(p) ==
    /\ phase # "exited"
    /\ proc[p].pc = "mjson"
    /\ Did(p, "json")
    /\ LET r == proc[p]
           new == NewJobs(r.jobs, seenJobIds)
       IN IF r.body = "bad" \/ Len(r.jobs) = 0 \/ Len(new) = 0
          THEN /\ ModCommit(p, Idle, extractor)
               /\ UNCHANGED seenJobIds
          ELSE /\ seenJobIds' = AddAll(seenJobIds, new)
               /\ LET s == EnsureValidToken([r EXCEPT !.body = "none", !.jobs = <<>>,
                                                      !.newJobs = new, !.idx = 0],
                                            "send", currentAuthToken, extractor)
                  IN ModCommit(p, s.r, s.e)
    /\ UNCHANGED currentAuthToken

\* Telegram answered for newJobs[idx]: the loop goes on to ensureValidToken for
\* the next job (the same one after a 429), or sendTelegramAlert returns
ModSendResponse(p, Replies) ==
    /\ phase # "exited"
    /\ proc[p].pc = "msend"
    /\ LET r == proc[p]
       IN \E resp \in Replies :
            LET i == NextIndex(resp, r.idx)
            IN IF resp = "throw" \/ ~(i < Len(r.newJobs) /\ i < MAX_JOBS_PER_ALERT)
               THEN Did(p, resp) /\ ModCommit(p, Idle, extractor)
               ELSE LET s == EnsureValidToken([r EXCEPT !.idx = i], "send",
                                              currentAuthToken, extractor)
                    IN Did(p, resp) /\ ModCommit(p, s.r, s.e)
    /\ UNCHANGED <<currentAuthToken, seenJobIds>>

\* process.on('uncaughtException' / 'unhandledRejection') of the modular
\* variant: process.exit(1) at once; token-extractor's cleanup is not called
ModFault ==
    /\ phase # "exited"
    /\ Did("env", "uncaught")
    /\ phase' = "exited"
    /\ proc' = [p \in Procs |-> Idle]
    /\ UNCHANGED <<setup, storage, alive, stop, extractor, now, browser, tokenRefreshInterval, currentAuthToken,
                   tokenExpiryTime, seenJobIds, verified, rejected>>

NextMod ==
    \/ ClearSeen
    \/ ModFault
    \/ \E p \in Procs : ModClosed(p)
    \/ \E p \in Procs : ModLaunched(p)
    \/ \E p \in Procs : ModPageReady(p)
    \/ \E p \in Procs : ModUserAgentSet(p)
    \/ \E p \in Procs : ModNavigated(p)
    \/ \E p \in Procs : ModSettled(p)
    \/ \E p \in Procs : ModEvaluated(p)
    \/ \E p \in Procs : ModValidated(p)
    \/ \E p \in Procs : ModWaited(p)
    \/ \E p \in Procs : ModChecked(p)
    \/ \E p \in Procs : ModTickFire(p)
    \/ \E p \in Procs : ModFetchResponse(p, {"200", "401", "other"}, FewBatches)
    \/ \E p \in Procs : ModParseBody(p)
    \/ \E p \in Procs : ModSendResponse(p, {"ok", "429"})

SpecMod == InitMod /\ [][NextMod]_vars

\* getValidToken on its own: one caller, main(), which passes a retry budget
\* from 0 to the default and keeps the token it gets back
Budgets == 0..maxRetries

InitGet ==
    /\ phase = "startup"
    /\ now = 1
    /\ browser = FALSE
    /\ alive = FALSE
    /\ stop = NoStop
    /\ storage = NoPage
    /\ setup = NoSetup
    /\ tokenRefreshInterval = FALSE
    /\ currentAuthToken = NoToken
    /\ tokenExpiryTime = NoExpiry
    /\ seenJobIds = <<>>
    /\ proc = [p \in Procs |-> Idle]
    /\ extractor = NoBrowser
    /\ verified = FALSE
    /\ rejected = FALSE
    /\ last = NoStep

\* the call getValidToken(m) up to its first await
ModStart(p, Budget) ==
    /\ phase = "startup"
    /\ p = "main"
    /\ proc[p].pc = "idle"
    /\ Did(p, "start")
    /\ \E m \in Budget :
         LET s == GetValidTokenWith(Idle, "startup", m, extractor)
         IN ModCommit(p, s.r, s.e)
    /\ UNCHANGED <<currentAuthToken, seenJobIds>>

NextGet ==
    \/ ModFault
    \/ \E p \in Procs : ModStart(p, Budgets)
    \/ \E p \in Procs : ModClosed(p)
    \/ \E p \in Procs : ModLaunched(p)
    \/ \E p \in Procs : ModPageReady(p)
    \/ \E p \in Procs : ModUserAgentSet(p)
    \/ \E p \in Procs : ModNavigated(p)
    \/ \E p \in Procs : ModSettled(p)
    \/ \E p \in Procs : ModEvaluated(p)
    \/ \E p \in Procs : ModValidated(p)
    \/ \E p \in Procs : ModWaited(p)

SpecGet == InitGet /\ [][NextGet]_vars

\* ---------------------------------------------------------------- shutdown
\* auto-token-monitor.js: the SIGINT handler, cleanup(), and a browser process
\* that dies underneath its handle

MaxSignals == 2

\* cleanup() up to its await: with a browser reference browser.close() is
\* called and awaited; the reference itself is never nulled
Cleanup(st, b) ==
    IF b THEN [pending |-> st.pending + 1, closes |-> st.closes + 1] ELSE st

\* SIGINT arrives: cleanup() clears the refresh timer and calls browser.close();
\* with no browser reference it returns at once and the handler exits
Sigint ==
    /\ phase # "exited"
    /\ stop.closes < MaxSignals
    /\ Did("env", "sigint")
    /\ tokenRefreshInterval' = FALSE
    /\ stop' = Cleanup(stop, browser)
    /\ IF browser
       THEN UNCHANGED <<phase, proc>>
       ELSE phase' = "exited" /\ proc' = [p \in Procs |-> Idle]
    /\ UNCHANGED <<setup, storage, alive, extractor, now, browser, currentAuthToken, tokenExpiryTime,
                   seenJobIds, verified, rejected>>

\* an awaited browser.close() settles: cleanup() returns and the handler
\* calls process.exit
CleanupDone ==
    /\ phase # "exited"
    /\ stop.pending > 0
    /\ Did("env", "closed")
    /\ alive' = FALSE
    /\ phase' = "exited"
    /\ proc' = [p \in Procs |-> Idle]
    /\ stop' = [stop EXCEPT !.pending = @ - 1]
    /\ UNCHANGED <<setup, storage, extractor, now, browser, tokenRefreshInterval, currentAuthToken,
                   tokenExpiryTime, seenJobIds, verified, rejected>>

\* the browser process dies; the module's browser and page references stay
BrowserCrash ==
    /\ phase # "exited"
    /\ browser
    /\ alive
    /\ Did("env", "crash")
    /\ alive' = FALSE
    /\ UNCHANGED <<setup, storage, stop, extractor, phase, now, browser, tokenRefreshInterval,
                   currentAuthToken, tokenExpiryTime, seenJobIds, proc, verified,
                   rejected>>

NextLife ==
    \/ Sigint
    \/ CleanupDone
    \/ BrowserCrash
    \/ TimerFire
    \/ \E p \in Procs : LaunchDone(p)
    \/ \E p \in Procs : ExtractRead(p, {"error", "jwt"}, {11})
    \/ \E p \in Procs : ExtractTested(p)
    \/ \E p \in Procs : TickFire(p)
    \/ \E p \in Procs : FetchResponse(p, {"200", "401"}, {<<>>})
    \/ \E p \in Procs : ParseBody(p)

SpecLife == Init /\ [][NextLife]_vars

\* --------------------------------------------------------- token discovery
\* the function page.evaluate runs in the page: three methods, first match wins

MinTokenLength == 100
MaxKeys == 2

StorageKeys == {"sessionToken", "a", "b"}

Values ==
    {NoValue,
     [eyJ |-> FALSE, len |-> MinTokenLength + 1],
     [eyJ |-> TRUE, len |-> MinTokenLength],
     [eyJ |-> TRUE, len |-> MinTokenLength + 1]}

\* a Storage object: its entries in key order, no key twice
Stores ==
    {s \in UNION {[1..n -> [key : StorageKeys, value : Values]] : n \in 0..MaxKeys} :
        \A i, j \in 1..Len(s) : i # j => s[i].key # s[j].key}

\* value && value.startsWith('eyJ') && value.length > 100
LooksLikeToken(v) == v.len > 0 /\ v.eyJ /\ v.len > MinTokenLength

\* storage.getItem(k): the value, null for a missing key
GetItem(store, k) ==
    IF \E i \in 1..Len(store) : store[i].key = k
    THEN store[CHOOSE i \in 1..Len(store) : store[i].key = k].value
    ELSE NoValue

FoundAt(name, e) == [source |-> name, key |-> e.key, value |-> e.value]

\* for (let i = 0; i < storage.length; i++) { ... break; }, from entry i on
RECURSIVE Scan(_, _, _)
Scan(store, name, i) ==
    IF i > Len(store) THEN NotFound
    ELSE IF LooksLikeToken(store[i].value) THEN FoundAt(name, store[i])
    ELSE Scan(store, name, i + 1)

FindTokenSessionFirst(local, session) ==
    IF Scan(session, "sessionStorage", 1) # NotFound
    THEN Scan(session, "sessionStorage", 1)
    ELSE Scan(local, "localStorage", 1)

\* Method 1, then Method 2 if (!tokenData), then Method 3 if (!tokenData);
\* null when none found anything
FindToken(local, session) ==
    LET sessionToken == GetItem(local, "sessionToken")
    IN IF sessionToken.len > 0 /\ sessionToken.eyJ
       THEN FoundAt("localStorage", [key |-> "sessionToken", value |-> sessionToken])
       ELSE IF Scan(local, "localStorage", 1) # NotFound
            THEN Scan(local, "localStorage", 1)
            ELSE Scan(session, "sessionStorage", 1)

\* page.evaluate returns what the discovery found in the page's storage
EvaluatePage ==
    /\ storage.result.source = "pending"
    /\ storage' = [storage EXCEPT !.result = FindToken(storage.local, storage.session)]
    /\ Did("page", "evaluate")
    /\ UNCHANGED <<setup, phase, now, browser, tokenRefreshInterval, currentAuthToken,
                   tokenExpiryTime, seenJobIds, proc, extractor, alive, stop,
                   verified, rejected>>

\* the page as the extractor finds it after navigation, with any storage contents
InitFind ==
    /\ phase = "startup"
    /\ now = 1
    /\ browser = TRUE
    /\ alive = TRUE
    /\ stop = NoStop
    /\ storage \in {[local |-> l, session |-> s, result |-> NoPage.result] :
                        l \in Stores, s \in Stores}
    /\ setup = NoSetup
    /\ tokenRefreshInterval = FALSE
    /\ currentAuthToken = NoToken
    /\ tokenExpiryTime = NoExpiry
    /\ seenJobIds = <<>>
    /\ proc = [p \in Procs |-> IF p = "main"
                               THEN [Idle EXCEPT !.pc = "nav", !.ctx = "startup"]
                               ELSE Idle]
    /\ extractor = NoBrowser
    /\ verified = FALSE
    /\ rejected = FALSE
    /\ last = NoStep

NextFind == EvaluatePage

SpecFind == InitFind /\ [][NextFind]_vars

\* ---------------------------------------------------------------- setup.js
\* setupConfiguration: the answers to the two numeric questions, as strings of
\* characters; "Infinity" stands for the eight letters of that word

MaxInput == 3

Digits == {"0", "1", "5"}
InputChars == Digits \cup {"e", "a", "Infinity"}
Inputs == SeqsUpTo(InputChars, MaxInput)

DefaultPollingInterval == <<"1", "0", "0", "0">>
DefaultMaxJobs == <<"5">>
MinPollingInterval == 500
MinMaxJobs == 1

DigitValue(c) == CASE c = "0" -> 0 [] c = "1" -> 1 [] c = "5" -> 5

AllDigits(s) == s # <<>> /\ \A i \in 1..Len(s) : s[i] \in Digits

\* the longest prefix of s made of digits
RECURSIVE DigitPrefix(_)
DigitPrefix(s) ==
    IF s = <<>> \/ Head(s) \notin Digits THEN <<>>
    ELSE <<Head(s)>> \o DigitPrefix(Tail(s))

RECURSIVE Decimal(_)
Decimal(ds) ==
    IF ds = <<>> THEN 0
    ELSE Decimal(SubSeq(ds, 1, Len(ds) - 1)) * 10 + DigitValue(ds[Len(ds)])

\* parseInt(s): the integer written by the leading digits, NaN without any
ParseInt(s) ==
    IF DigitPrefix(s) = <<>> THEN NaN ELSE Num(Decimal(DigitPrefix(s)))

\* isNaN(s) converts with Number(s): a number for the empty string, for
\* digits, for digits 'e' digits and for Infinity, NaN for anything else
IsNaN(s) ==
    ~ \/ s = <<>>
      \/ s = <<"Infinity">>
      \/ AllDigits(s)
      \/ \E k \in 1..Len(s) :
            /\ s[k] = "e"
            /\ AllDigits(SubSeq(s, 1, k - 1))
            /\ AllDigits(SubSeq(s, k + 1, Len(s)))

\* x < n in JavaScript: false for NaN
LessThan(x, n) == ~x.nan /\ x.value < n

\* an answer after the default for an empty one and the validation
Validated(answer, default, floor) ==
    LET typed == IF answer = <<>> THEN default ELSE answer
    IN IF IsNaN(typed) \/ LessThan(ParseInt(typed), floor) THEN default ELSE typed

SetupConfiguration(pollingInterval, maxJobsPerAlert) ==
    [done |-> TRUE,
     POLLING_INTERVAL |->
         ParseInt(Validated(pollingInterval, DefaultPollingInterval, MinPollingInterval)),
     MAX_JOBS_PER_ALERT |->
         ParseInt(Validated(maxJobsPerAlert, DefaultMaxJobs, MinMaxJobs))]

\* the questions are answered and setupConfiguration returns
RunSetup ==
    /\ ~setup.config.done
    /\ setup' = [setup EXCEPT !.config =
                    SetupConfiguration(setup.pollingInterval, setup.maxJobsPerAlert)]
    /\ Did("setup", "configured")
    /\ UNCHANGED <<storage, phase, now, browser, tokenRefreshInterval, currentAuthToken,
                   tokenExpiryTime, seenJobIds, proc, extractor, alive, stop,
                   verified, rejected>>

\* setup.js starts, the user about to type any two answers
InitSetup ==
    /\ phase = "startup"
    /\ now = 1
    /\ browser = FALSE
    /\ alive = FALSE
    /\ stop = NoStop
    /\ storage = NoPage
    /\ setup \in {[pollingInterval |-> a, maxJobsPerAlert |-> b, config |-> NoConfig] :
                      a \in Inputs, b \in Inputs}
    /\ tokenRefreshInterval = FALSE
    /\ currentAuthToken = NoToken
    /\ tokenExpiryTime = NoExpiry
    /\ seenJobIds = <<>>
    /\ proc = [p \in Procs |-> Idle]
    /\ extractor = NoBrowser
    /\ verified = FALSE
    /\ rejected = FALSE
    /\ last = NoStep

NextSetup == RunSetup

SpecSetup == InitSetup /\ [][NextSetup]_vars

\* ------------------------------------------------------------------ claims

\* p leaves for the listings API in this step
IssuesQuery(p) == proc[p].pc # "fetch" /\ proc'[p].pc = "fetch"

\* C1: while an extraction is in flight no second one is started: at most one
\* activity is inside extractAuthToken's page navigation at any time.
\* (Stated as claimed; the code starts one per requester.)
C1_SingleFlightExtraction ==
    Cardinality({p \in Procs : proc[p].pc = "nav"}) <= 1

\* C2: whenever extractAuthToken stores a credential, isTokenExpired() is false
\* right after the store (now < tokenExpiryTime - 10 minutes).
C2_StoredWithinGuard ==
    [][(currentAuthToken' # currentAuthToken \/ tokenExpiryTime' # tokenExpiryTime)
         => ~IsTokenExpired(currentAuthToken', tokenExpiryTime', now')]_vars

\* C3: once the listings API has rejected the stored token, no listings query
\* leaves with it: every query issued carries a token not rejected since stored.
C3_NoQueryWithRejectedToken ==
    [][\A p \in Procs : IssuesQuery(p) => ~rejected']_vars

\* C4: the ids handed to sendTelegramAlert are exactly those of the fetched
\* batch that are not in seenJobIds when pollForJobs filters, and nothing is
\* handed over when there are none.
C4_EmitsBatchMinusSeen ==
    [][\A p \in Procs :
          (proc[p].pc = "json" /\ proc[p].body = "cards" /\ proc'[p].pc # "json")
          => (IF proc'[p].pc = "send" THEN Range(proc'[p].newJobs) ELSE {})
               = Range(proc[p].jobs) \ Range(seenJobIds)]_vars

\* C4 witness: with 1 seen, the batch [1, 2] was fetched and [2] handed over
C4_Witness ==
    \E p \in Procs : /\ proc[p].pc = "send"
                      /\ last.who = p
                      /\ last.jobs = <<1, 2>>
                      /\ proc[p].newJobs = <<2>>

\* C5: in the capacity-trim variants seenJobIds never holds more than 1000 ids.
C5_SeenWithinCapacity ==
    Len(seenJobIds) <= SEEN_CAPACITY

\* C6: a tick sends the listings query at most twice (one retry after 401/403).
C6_AtMostOneRetry ==
    \A p \in Procs : proc[p].fetches <= 2

\* C7: when a listings query leaves, now <= tokenExpiryTime - 10 minutes holds
\* for the token in its Authorization header.
C7_QueryWithinGuard ==
    [][\A p \in Procs :
          IssuesQuery(p) => now' <= tokenExpiryTime' - ExpiryGuardMinutes]_vars

\* C8: a stored credential has passed its live verification call: once no
\* testToken call for the stored token is pending, that call has answered ok.
C8_InstalledTokenVerified ==
    (/\ currentAuthToken # NoToken
     /\ \A p \in Procs : ~(proc[p].pc = "test" /\ proc[p].tok = currentAuthToken))
    => verified

\* C9: at most one pollForJobs execution is in flight at any time.
C9_PollNotReentrant ==
    Cardinality({p \in TickIds : proc[p].pc # "idle"}) <= 1

\* C10: while a getValidToken attempt has a goto or an evaluate pending on a
\* page, no step of another process closes that page's browser or changes the
\* module's browser or page.
C10_BrowserNotPulledAway ==
    [][\A p \in Procs :
         (proc[p].pc \in UsesPage /\ proc'[p] = proc[p])
             => /\ proc[p].h \notin extractor'.closed
                /\ extractor'.browser = extractor.browser
                /\ extractor'.page = extractor.page]_vars

\* C11: once the poll interval is set, no step of a poll tick, whatever fails
\* in it, ends the process or unsets the poll or refresh interval.
C11_TickFailureNotFatal ==
    [][\A p \in TickIds :
         last'.who = p => /\ phase' = "running"
                          /\ tokenRefreshInterval' = tokenRefreshInterval]_vars

\* a tick's token renewal has just failed, the tick is over, the monitor runs
C11_Witness ==
    /\ phase = "running"
    /\ last.who \in TickIds
    /\ last.what \in {"error", "none"}
    /\ proc[last.who].pc = "idle"

\* C12: start-up ends the process only when the initial extraction has failed on
\* its third consecutive attempt (attempt retryCount + 1 = maxRetries).
C12_ExitAfterThreeAttempts ==
    [][(phase = "startup" /\ phase' = "exited" /\ last'.who = "main")
         => /\ proc["main"].pc = "nav"
            /\ proc["main"].retry + 1 = maxRetries]_vars

\* C13: in sendTelegramAlert a 429 for the job at idx leaves the loop on that
\* same job, and any other answer that keeps the loop going moves it to the
\* next job; the batch being sent does not change.
C13_RateLimitResendsSameItem ==
    [][\A p \in Procs :
         (proc[p].pc = "send" /\ last'.who = p)
             => /\ last'.what = "429"
                     => proc'[p].pc = "send" /\ proc'[p].idx = proc[p].idx
                /\ (last'.what # "429" /\ proc'[p].pc = "send")
                     => proc'[p].idx = proc[p].idx + 1
                /\ proc'[p].pc = "send" => proc'[p].newJobs = proc[p].newJobs]_vars

\* Telegram has just answered 429 for the second job of two
C13_Witness ==
    /\ last.what = "429"
    /\ last.who \in Procs
    /\ proc[last.who].pc = "send"
    /\ proc[last.who].idx = 1
    /\ Len(proc[last.who].newJobs) = 2

\* C14: sendTelegramAlert ends only when every job of the batch within the cap
\* has had a send attempt: the loop is left on the answer for the last job.
C14_EveryItemAttempted ==
    [][\A p \in Procs :
         (proc[p].pc = "send" /\ proc'[p].pc # "send")
             => \/ proc[p].idx + 1 >= Len(proc[p].newJobs)
                \/ proc[p].idx + 1 >= MAX_JOBS_PER_ALERT]_vars

\* C15: a 403 from the listings API is followed, as a 401 is, by an extraction
\* of a fresh token for the retry: the activity that got the 403 goes on into
\* refreshAuthToken.
C15_ForbiddenRenewsToken ==
    [][\A p \in Procs :
         (proc[p].pc = "fetch" /\ last'.who = p /\ last'.what = "403")
             => proc'[p].pc \in {"launch", "nav"}]_vars

\* C16: a tick that starts with no token, or with a token past its expiry minus
\* the guard margin, goes into a renewal before any query, and the query that
\* follows the renewal carries a token that is not past the guard margin.
C16_RenewedBeforeQuery ==
    [][\A p \in TickIds :
         /\ (proc[p].pc = "idle" /\ last'.who = p /\ last'.what = "tick"
                 /\ IsTokenExpired(currentAuthToken, tokenExpiryTime, now))
               => proc'[p].pc \in {"launch", "nav"}
         /\ (IssuesQuery(p) /\ proc[p].ctx = "pre")
               => ~IsTokenExpired(proc'[p].hdr, tokenExpiryTime', now')]_vars

\* C17: when the renewal a tick starts with throws (launch or navigation fails,
\* no token is found, or the last retry still reads an expired token), the tick
\* ends there: it has sent no query, hands nothing on, seenJobIds and the
\* stored token stay as they are and the monitor keeps running.
C17_FailedRenewalSkipsTick ==
    [][\A p \in TickIds :
         (/\ proc[p].ctx = "pre" /\ proc[p].fetches = 0
          /\ proc[p].pc \in {"launch", "nav"}
          /\ last'.who = p
          /\ \/ last'.what \in {"launch_failed", "error", "none"}
             \/ /\ last'.what = "jwt" /\ proc[p].retry = maxRetries
                /\ currentAuthToken' = currentAuthToken
                /\ tokenExpiryTime' = tokenExpiryTime /\ proc'[p].pc # "test")
             => /\ proc'[p] = Idle
                /\ seenJobIds' = seenJobIds
                /\ currentAuthToken' = currentAuthToken
                /\ phase' = "running"]_vars

\* a tick's starting renewal has just thrown and the tick is over
C17_Witness ==
    /\ last.who \in TickIds
    /\ last.ctx = "pre" /\ last.fetches = 0
    /\ last.what \in {"launch_failed", "error", "none"}
    /\ proc[last.who] = Idle
    /\ phase = "running"

\* C18: no step of the 55-minute timer's callback, a failed refreshAuthToken
\* included, ends the process or unsets the poll or the refresh interval.
C18_TimerFailureNotFatal ==
    [][last'.who = "timer"
         => /\ phase' = phase
            /\ phase' # "exited"
            /\ tokenRefreshInterval' = tokenRefreshInterval]_vars

\* the timer's refreshAuthToken has just thrown; both intervals are still set
C18_Witness ==
    /\ last.who = "timer"
    /\ last.what \in {"launch_failed", "error", "none"}
    /\ proc["timer"] = Idle
    /\ phase = "running"
    /\ tokenRefreshInterval

\* C19: when the 55-minute timer's refreshAuthToken has just thrown, the tick
\* that starts next goes into an extraction before it queries.
C19_TickRetriesFailedRefresh ==
    [][\A p \in TickIds :
         (/\ last.who = "timer"
          /\ last.what \in {"launch_failed", "error", "none"}
          /\ proc["timer"].pc = "idle"
          /\ last'.who = p /\ last'.what = "tick")
             => proc'[p].pc \in {"launch", "nav"}]_vars

\* C20: when the process has ended on an uncaught exception or an unhandled
\* rejection, no browser is left open: the monitor's own browser is closed and
\* so is every browser token-extractor.js launched.
C20_BrowserReleasedOnFault ==
    (phase = "exited" /\ last.what = "uncaught")
        => /\ ~browser
           /\ \A n \in 1..extractor.launched : n \in extractor.closed

\* C21: once SIGINT's cleanup has begun (browser.close() has been called) no
\* further poll tick starts: every timer was cleared before the close.
\* (Stated as claimed; cleanup() clears only the refresh timer, and the poll
\* interval fires while browser.close() is awaited.)
C21_NoTickAfterCleanupBegins ==
    [][stop.closes > 0 => last'.what # "tick"]_vars

\* C22: cleanup() is idempotent: however many times it is called, the browser
\* is asked to close at most once.
\* (Stated as claimed; cleanup() neither nulls the browser reference nor
\* records that it ran, so every call with a reference calls browser.close().)
C22_ClosedAtMostOnce ==
    stop.closes <= 1

\* a sequence without repeats
Distinct(s) == Cardinality(Range(s)) = Len(s)

\* C23: between two clearings of seenJobIds each listing id is handed to the
\* dispatcher at most once, however the poll ticks overlap: a tick that hands
\* over the new ids of a batch of distinct ids hands over distinct ids, none of
\* them in seenJobIds before the step and all of them in it after, and no step
\* other than the clearing removes an id from seenJobIds.
C23_HandedOncePerClearing ==
    [][/\ \A p \in Procs :
            (proc[p].pc = "json" /\ proc'[p].pc = "send" /\ Distinct(proc[p].jobs)) =>
                /\ Distinct(proc'[p].newJobs)
                /\ Range(proc'[p].newJobs) \cap Range(seenJobIds) = {}
                /\ Range(proc'[p].newJobs) \subseteq Range(seenJobIds')
       /\ last'.what # "clear" => Range(seenJobIds) \subseteq Range(seenJobIds')]_vars

\* two ticks overlap in the dispatcher; the later one fetched both ids and
\* hands over only the one the earlier tick had not
C23_Witness ==
    /\ proc["t1"].pc = "send" /\ proc["t1"].newJobs = <<1>>
    /\ proc["t2"].pc = "send" /\ proc["t2"].newJobs = <<2>>
    /\ last.who = "t2" /\ last.what = "json" /\ last.jobs = <<1, 2>>

\* C24: a refreshAuthToken call that finds the browser dead launches a new one
\* before extracting: no call goes to the page navigation of a dead browser.
\* (Stated as claimed; the code relaunches only when its browser or page
\* reference is null, and nothing nulls them after a failure or a crash.)
C24_RefreshRelaunchesDeadBrowser ==
    [][\A p \in Procs :
          (proc[p].pc # "nav" /\ proc'[p].pc = "nav") => alive']_vars

\* C25: a call of sendTelegramAlert attempts delivery only for the first
\* MAX_JOBS_PER_ALERT listings of its batch, in order: the listing whose
\* message is in flight is always among those, the first message is for the
\* first listing, and an answer (429 and failed sends included) leaves the call
\* on the same listing or moves it to the next.
C25_AtMostCapListingsInOrder ==
    [][\A p \in Procs :
          proc'[p].pc = "send" =>
              /\ proc'[p].idx < US_MAX_JOBS_PER_ALERT
              /\ proc'[p].idx < Len(proc'[p].newJobs)
              /\ IF proc[p].pc = "send"
                 THEN /\ proc'[p].idx \in {proc[p].idx, proc[p].idx + 1}
                      /\ proc'[p].newJobs = proc[p].newJobs
                 ELSE proc'[p].idx = 0]_vars

\* a batch longer than the cap: the last listing within the cap was answered
\* 429 and is being sent again
C25_Witness ==
    \E p \in Procs :
        /\ proc[p].pc = "send"
        /\ Len(proc[p].newJobs) > US_MAX_JOBS_PER_ALERT
        /\ proc[p].idx = US_MAX_JOBS_PER_ALERT - 1
        /\ last.who = p /\ last.what = "429"

\* the entries of a Storage whose value the scan accepts
Matches(store) == {i \in 1..Len(store) : LooksLikeToken(store[i].value)}

HasPrefix(v) == v.len > 0 /\ v.eyJ

\* the discovery's answer follows the priority order with first match wins;
\* the value under 'sessionToken' is taken if it has the prefix and, when
\* strict, the length too
Priority(strict) ==
    LET l == storage.local
        s == storage.session
        r == storage.result
        st == {i \in 1..Len(l) :
                 /\ l[i].key = "sessionToken"
                 /\ IF strict THEN LooksLikeToken(l[i].value) ELSE HasPrefix(l[i].value)}
    IN CASE st # {} ->
              \E i \in st : r = FoundAt("localStorage", l[i])
         [] st = {} /\ Matches(l) # {} ->
              \E i \in Matches(l) :
                  /\ \A j \in Matches(l) : i <= j
                  /\ r = FoundAt("localStorage", l[i])
         [] st = {} /\ Matches(l) = {} /\ Matches(s) # {} ->
              \E i \in Matches(s) :
                  /\ \A j \in Matches(s) : i <= j
                  /\ r = FoundAt("sessionStorage", s[i])
         [] OTHER -> r = NotFound

\* C26 (amended): for every combination of storage contents the discovery
\* returns (a) localStorage['sessionToken'] if it starts with 'eyJ', whatever
\* its length, else (b) the first localStorage value in key order with the
\* prefix and length > 100, else (c) the first such sessionStorage value, and
\* not-found exactly when none of the three matches.
C26_DiscoveryPriority ==
    storage.result.source # "pending" => Priority(FALSE)

\* C26 as stated: (a) is taken only if the value under 'sessionToken' has the
\* whole signature, prefix and length > 100.
C26_KeyedValueHasSignature ==
    storage.result.source # "pending" => Priority(TRUE)

\* a short 'eyJ' value under 'sessionToken' was returned although localStorage
\* holds a value with the whole signature
C26_Witness ==
    /\ storage.result.key = "sessionToken"
    /\ ~LooksLikeToken(storage.result.value)
    /\ Matches(storage.local) # {}
    /\ Matches(storage.session) # {}

\* C27: on the final retry of extractAuthToken (retryCount = maxRetries) a
\* short-lived token, not expired but with less than the extraction guard left,
\* is stored and the call goes on to return it; on every earlier attempt a token
\* that is expired or short-lived is not stored and the extraction is retried.
C27_LastRetryAcceptsShortLived ==
    [][\A p \in Procs :
          (proc[p].pc = "nav" /\ last'.who = p /\ last'.what = "jwt") =>
              LET timeLeft == ShortLived.exp - now
              IN IF proc[p].retry < maxRetries
                 THEN timeLeft < ExtractGuardMinutes =>
                          /\ proc'[p].pc = "nav"
                          /\ proc'[p].retry = proc[p].retry + 1
                          /\ UNCHANGED <<currentAuthToken, tokenExpiryTime>>
                 ELSE (timeLeft > 0 /\ timeLeft < ExtractGuardMinutes) =>
                          /\ proc'[p].pc = "test"
                          /\ currentAuthToken' = ShortLived
                          /\ tokenExpiryTime' = ShortLived.exp]_vars

\* the short-lived token was stored: every earlier attempt read the same token
\* and retried, so this is the attempt with retryCount = maxRetries
C27_Witness ==
    \E p \in Procs :
        /\ last.who = p /\ last.what = "jwt"
        /\ proc[p].pc = "test"
        /\ currentAuthToken = ShortLived
        /\ tokenExpiryTime - now < ExtractGuardMinutes

\* C28: when the extracted token's claims cannot be decoded, or carry no exp,
\* extractAuthToken does not fail: it stores the token with tokenExpiryTime =
\* now + 59 minutes and returns it, so the process does not exit and a caller
\* that wanted a token for a query sends the query with this token.
C28_UndecodableTokenAssumedValid ==
    [][\A p \in Procs :
          (proc[p].pc = "nav" /\ last'.who = p /\ last'.what = "opaque") =>
              /\ currentAuthToken' = OpaqueToken
              /\ tokenExpiryTime' = now + AssumedValidityMinutes
              /\ phase' # "exited"
              /\ proc[p].ctx # "timer" =>
                     proc'[p].pc = "fetch" /\ proc'[p].hdr = OpaqueToken]_vars

\* a tick's renewal read an undecodable token and the tick's query left with it
C28_Witness ==
    \E p \in TickIds :
        /\ last.who = p /\ last.what = "opaque" /\ last.ctx = "pre"
        /\ proc[p].pc = "fetch" /\ proc[p].hdr = OpaqueToken
        /\ currentAuthToken = OpaqueToken
        /\ tokenExpiryTime = now + AssumedValidityMinutes

\* tick p returns from the dispatcher in this step; pollForJobs prunes then
Returns(p) == proc[p].pc = "send" /\ proc'[p].pc = "idle"

\* the prune of a returning tick: past the capacity exactly the SEEN_KEEP most
\* recently inserted ids are left, in insertion order, otherwise nothing is
\* removed; of the ids the tick itself inserted, those with fewer than `after`
\* ids inserted after them are still there
PruneKeeps(after) ==
    \A p \in Procs :
        Returns(p) =>
            IF Len(seenJobIds) > SEEN_CAPACITY
            THEN /\ Len(seenJobIds') = SEEN_KEEP
                 /\ \A i \in 1..SEEN_KEEP :
                        seenJobIds'[i] = seenJobIds[Len(seenJobIds) - SEEN_KEEP + i]
                 /\ \A k \in 1..Len(seenJobIds) :
                        (/\ seenJobIds[k] \in Range(proc[p].newJobs)
                         /\ Len(seenJobIds) - k < after)
                            => seenJobIds[k] \in Range(seenJobIds')
            ELSE seenJobIds' = seenJobIds

C30_DispatchTerminates ==
    \A p \in Procs : (proc[p].pc = "send") ~> (proc[p].pc # "send")

\* C31: setupConfiguration enforces the floors: whatever the user types, the
\* returned POLLING_INTERVAL is an integer >= 500 and the returned
\* MAX_JOBS_PER_ALERT is an integer >= 1.
\* (Stated as claimed; for 'Infinity' isNaN is false and parseInt is NaN, NaN
\* is not below the floor, and NaN is returned.)
C31_SetupEnforcesFloors ==
    setup.config.done =>
        /\ ~setup.config.POLLING_INTERVAL.nan
        /\ setup.config.POLLING_INTERVAL.value >= MinPollingInterval
        /\ ~setup.config.MAX_JOBS_PER_ALERT.nan
        /\ setup.config.MAX_JOBS_PER_ALERT.value >= MinMaxJobs

\* C32: the credential is replaced wholesale: in every state another callback
\* can observe, currentAuthToken and tokenExpiryTime come from the same
\* extraction: both unset, or a decoded token with its own exp, or an undecoded
\* token with the 59 minutes assumed at some minute up to now.
C32_TokenAndExpiryFromSameExtraction ==
    CASE currentAuthToken = NoToken -> tokenExpiryTime = NoExpiry
      [] currentAuthToken.kind = "jwt" -> tokenExpiryTime = currentAuthToken.exp
      [] OTHER -> \E t \in 1..now : tokenExpiryTime = t + AssumedValidityMinutes

\* a renewal has just replaced the token while a query with the previous token
\* is still in flight
C32_Witness ==
    \E p, q \in Procs :
        /\ last.who = p /\ last.what = "jwt"
        /\ proc[p].pc = "test"
        /\ proc[q].pc = "fetch"
        /\ proc[q].hdr.kind = "jwt"
        /\ proc[q].hdr # currentAuthToken
        /\ currentAuthToken.kind = "jwt"

\* the inputs of a step that count as a failure of an extraction, of a
\* listings request or of a Telegram send
Failures ==
    {"launch_failed", "error", "none", "test_failed", "401", "403", "other",
     "okfalse", "429", "notok", "throw", "uncaught", "crash"}

\* listing id is among those sendTelegramAlert, called by p, has yet to get an
\* answer for
Pending(p, id) ==
    /\ proc[p].pc = "send"
    /\ \E k \in 1..Len(proc[p].newJobs) : k > proc[p].idx /\ proc[p].newJobs[k] = id

\* Telegram has just answered ok to p's message for listing id, or to the last
\* message of p's call
Sent(p, id) ==
    /\ last.who = p
    /\ last.what = "ok"
    /\ \/ proc[p].pc = "idle"
       \/ /\ proc[p].pc = "send"
          /\ proc[p].idx >= 1
          /\ proc[p].newJobs[proc[p].idx] = id

\* C33: if from some point on no extraction, listings request or Telegram send
\* fails, then from some point on every listing id that a tick found in its
\* batch and not in seenJobIds, and handed to the dispatcher, is sent to the
\* channel, whatever failed before.
C33_NewListingsEventuallySent ==
    (<>[](last.what \notin Failures)) =>
        \A p \in TickIds : \A id \in DeliverIds :
            <>[](Pending(p, id) => <>Sent(p, id))

\* a tick has returned from a call whose last message was answered ok, both
\* listings being marked as seen
C33_Witness ==
    \E p \in TickIds :
        /\ Sent(p, 2)
        /\ proc[p].pc = "idle"
        /\ seenJobIds = <<1, 2>>

\* C34: an extractAuthToken attempt that fails (navigation error, no token
\* found, or an expired token, on the last attempt as on the earlier ones that
\* retry) leaves currentAuthToken and tokenExpiryTime exactly as they were.
C34_FailedExtractionKeepsToken ==
    [][\A p \in Procs :
          (/\ proc[p].pc = "nav"
           /\ last'.who = p
           /\ \/ last'.what \in {"error", "none"}
              \/ last'.what = "jwt" /\ ShortLived.exp - now <= 0)
          => UNCHANGED <<currentAuthToken, tokenExpiryTime>>]_vars

\* the refresh timer's extraction gave up on an expired token, on its last
\* attempt, while a token was stored
C34_Witness ==
    /\ last.who = "timer" /\ last.what = "jwt"
    /\ proc["timer"].pc = "idle"
    /\ ShortLived.exp - now <= 0
    /\ currentAuthToken # NoToken

\* C35: every listing id that a tick added to seenJobIds has had a delivery
\* attempt by the time the dispatcher of that tick returns.  With a batch of
\* more new listings than the cap of 5, the ids after the fifth are in the
\* seen set and were never handed to a send.
C35_SeenListingsAttempted ==
    [][\A p \in Procs :
          (proc[p].pc = "send" /\ proc'[p].pc # "send")
              => \A k \in 1..Len(proc[p].newJobs) :
                    (\E j \in 1..Len(seenJobIds) : seenJobIds[j] = proc[p].newJobs[k])
                        => k <= proc[p].idx + 1]_vars

\* C36: getValidToken(maxRetries) returns only the token of the attempt whose
\* validateTokenWithServer answered 200; it never makes more than maxRetries
\* attempts; every attempt begins with initializeFreshBrowser; it waits only
\* when another attempt follows; and it throws only when maxRetries attempts
\* have failed, which with maxRetries = 0 is at the call, nothing launched.
InCall == {"mclose", "mlaunch", "mpage", "mua", "mgoto", "msettle", "meval",
           "mvalidate", "mwait"}
C36_GetValidTokenAttempts ==
    [][\A p \in Procs :
          /\ (proc[p].pc \in InCall /\ proc'[p].pc = "idle" /\ phase' = "running")
                => /\ proc[p].pc = "mvalidate"
                   /\ last'.what = "test_ok"
                   /\ proc[p].tok # NoToken
                   /\ currentAuthToken' = proc[p].tok
          /\ proc'[p].retry <= proc'[p].max
          /\ (proc'[p].pc \in InCall /\ proc'[p].retry # proc[p].retry)
                => /\ proc'[p].retry = proc[p].retry + 1
                   /\ proc'[p].pc \in {"mclose", "mlaunch"}
          /\ proc'[p].pc = "mwait" => proc'[p].retry < proc'[p].max
          /\ (proc[p].pc = "mwait" /\ last'.who = p) => proc'[p].retry = proc[p].retry + 1
          /\ (phase' = "exited" /\ phase # "exited" /\ last'.who = p)
                => /\ proc[p].retry = proc[p].max
                   /\ last'.what = "start" => extractor' = NoBrowser
                   /\ last'.what # "start" => proc[p].max \in Budgets \ {0}]_vars

\* getValidToken(3) threw: three browsers were launched and the third token
\* was refused by the server
C36_Witness ==
    /\ phase = "exited"
    /\ last.who = "main" /\ last.what = "test_failed"
    /\ extractor.launched = maxRetries

\* C37: a listings query leaves only with a credential in its header, the
\* stored currentAuthToken, which is then non-null; and no poll starts, neither
\* the initial one of startMonitoring nor a tick of the interval, while
\* currentAuthToken is still null.
Polling(r) == r.pc \in {"fetch", "json", "send"} \/ r.ctx \in {"pre", "r401"}
C37_QueryCarriesCredential ==
    [][\A p \in Procs :
          /\ IssuesQuery(p) => /\ currentAuthToken' # NoToken
                               /\ proc'[p].hdr = currentAuthToken'
          /\ (last'.who = p /\ last'.what = "tick" /\ proc[p].pc = "idle")
                => currentAuthToken # NoToken /\ phase = "running"
          /\ (~Polling(proc[p]) /\ Polling(proc'[p]))
                => currentAuthToken' # NoToken]_vars

\* a tick of the interval found the stored token fresh and sent its query
C37_Witness ==
    \E p \in TickIds :
        /\ last.who = p /\ last.what = "tick"
        /\ proc[p].pc = "fetch"
        /\ proc[p].hdr = currentAuthToken
        /\ currentAuthToken # NoToken

\* C38: one top-level extractAuthToken() navigates at most maxRetries + 1 = 4
\* times (the navigation in flight at "nav" is number retryCount + 1) and the
\* step after the fourth ends the call; a further navigation of the same call
\* follows only a decoded token that is expired or has under 5 minutes left,
\* never a navigation error or a missing token.
C38_AtMostFourNavigations ==
    [][\A p \in Procs :
          /\ proc'[p].pc = "nav" => proc'[p].retry + 1 <= maxRetries + 1
          /\ (proc[p].pc = "nav" /\ last'.who = p /\ proc'[p].retry # 0)
                => /\ proc'[p].pc = "nav"
                   /\ proc'[p].retry = proc[p].retry + 1
                   /\ last'.what = "jwt"
                   /\ ShortLived.exp - now < ExtractGuardMinutes
          /\ (proc[p].pc = "nav" /\ last'.who = p /\ proc[p].retry = maxRetries)
                => proc'[p].retry = 0
          /\ (proc[p].pc = "nav" /\ last'.who = p /\ last'.what \in {"error", "none"})
                => proc'[p].pc # "nav"]_vars

\* the start-up extraction is at its fourth navigation after three tokens that
\* were expired or about to expire
C38_Witness ==
    /\ phase = "startup"
    /\ proc["main"].pc = "nav"
    /\ proc["main"].retry = maxRetries
    /\ last.who = "main" /\ last.what = "jwt"

\* C39: extractAuthToken never stores a token whose decoded expiry is not in
\* the future: whenever a step of it assigns currentAuthToken a JWT, the exp
\* claim of that JWT lies after the current time.
C39_NoExpiredTokenStored ==
    [][\A p \in Procs :
          (/\ proc[p].pc = "nav" /\ last'.who = p /\ last'.what = "jwt"
           /\ ~ UNCHANGED <<currentAuthToken, tokenExpiryTime>>)
              => currentAuthToken'.exp > now]_vars

====
